---- MODULE Spec2Model ----
(***************************************************************************)
(* AIGC-Detection: the scoring thread AIGCDetectionThread.run of           *)
(* src/main.py and src/core_engine.py as a state machine.                  *)
(*                                                                         *)
(* Encodings.  A text is a sequence of one-character strings.  "zh" stands *)
(* for one CJK character (U+4E00..U+9FA5), "a" for one character of      *)
(* [a-zA-Z0-9], "." for a sentence terminator, "," for other punctuation.  *)
(* Probabilities are fixed-point numbers in units of 1/Unit, ai_rate and   *)
(* total_ai_rate are in hundredths of a percent (round(x, 2) keeps two     *)
(* decimals), lengths and weights are in half characters (core_engine.py   *)
(* counts an alphanumeric character as 0.5).                               *)
(***************************************************************************)
EXTENDS Integers, Sequences, FiniteSets, TLC

\* Bound of the model: the number of lines of an input text.
MaxLines == 3

\* self.MIN_VALID_CHARS of the two engine variants.
MainMinValidChars == 10
CoreMinValidChars == 20

Unit == 100 * 100
HalfChars == 1 + 1

Variants == {"main", "core_engine"}

----------------------------------------------------------------------------
(* Characters and the string operations of the engine.                     *)

Rep(c, n) == [i \in 1..n |-> c]

IsSpace(c) == c \in {" ", "\t", "\n", "\r"}

IsTerminator(c) == c \in {".", "!", "?", ";", "\n"}

IsChinese(c) == c = "zh"

IsAlnum(c) == c = "a"

RECURSIVE SplitFrom(_, _, _, _)
SplitFrom(s, sep, i, cur) ==
    IF i > Len(s) THEN <<cur>>
    ELSE IF s[i] = sep THEN <<cur>> \o SplitFrom(s, sep, i + 1, <<>>)
    ELSE SplitFrom(s, sep, i + 1, Append(cur, s[i]))

\* str.split(sep) for a one-character separator: empty pieces are kept.
Split(s, sep) == SplitFrom(s, sep, 1, <<>>)

RECURSIVE LStrip(_)
LStrip(s) ==
    IF s = <<>> THEN s
    ELSE IF IsSpace(Head(s)) THEN LStrip(Tail(s))
    ELSE s

RECURSIVE RStrip(_)
RStrip(s) ==
    IF s = <<>> THEN s
    ELSE IF IsSpace(s[Len(s)]) THEN RStrip(SubSeq(s, 1, Len(s) - 1))
    ELSE s

\* str.strip()
Strip(s) == RStrip(LStrip(s))

\* "if p" in place of "if p.strip()": only empty pieces are dropped
NonEmpty(p) == p # <<>>

NonBlank(p) == Strip(p) # <<>>

\* [p.strip() for p in self.text.split("\n") if p.strip()]: the paragraphs
\* trimmed
SegmentStripped(text) ==
    LET kept == SelectSeq(Split(text, "\n"), NonBlank)
    IN  [i \in 1..Len(kept) |-> Strip(kept[i])]

RECURSIVE SplitBlankFrom(_, _, _)
SplitBlankFrom(s, i, cur) ==
    IF i > Len(s) THEN <<cur>>
    ELSE IF i < Len(s) /\ s[i] = "\n" /\ s[i + 1] = "\n"
         THEN <<cur>> \o SplitBlankFrom(s, i + 2, <<>>)
    ELSE SplitBlankFrom(s, i + 1, Append(cur, s[i]))

\* [p for p in self.text.split("\n\n") if p.strip()]: the paragraphs are the
\* blocks an empty line separates
SegmentOnEmptyLines(text) == SelectSeq(SplitBlankFrom(text, 1, <<>>), NonBlank)

\* paragraphs = [p for p in self.text.split("\n") if p.strip()]
Segment(text) == SelectSeq(Split(text, "\n"), NonBlank)

NotSpace(c) == ~IsSpace(c)

\* "".join(para.split()): the paragraph without its whitespace
RemoveWhitespace(para) == SelectSeq(para, NotSpace)

\* The pieces of s from position i on: the piece up to the first terminator,
\* then the pieces after the run of terminators that starts there.
RECURSIVE ReSplitFrom(_, _)
ReSplitFrom(s, i) ==
    LET terminators == {j \in i..Len(s) : IsTerminator(s[j])}
        first == CHOOSE j \in terminators : \A k \in terminators : j <= k
        after == CHOOSE k \in (first + 1)..(Len(s) + 1) :
                     /\ \A m \in (first + 1)..(k - 1) : IsTerminator(s[m])
                     /\ k <= Len(s) => ~IsTerminator(s[k])
    IN  IF terminators = {} THEN <<SubSeq(s, i, Len(s))>>
        ELSE <<SubSeq(s, i, first - 1)>> \o ReSplitFrom(s, after)

\* re.split(r'[...]+', text): a run of terminators is one separator
SplitSentences(text) == ReSplitFrom(text, 1)

----------------------------------------------------------------------------
(* Integer helpers.                                                        *)

Max(a, b) == IF a >= b THEN a ELSE b

Min(a, b) == IF a <= b THEN a ELSE b

RECURSIVE SqrtSearch(_, _, _)
SqrtSearch(x, lo, hi) ==
    IF lo >= hi THEN lo
    ELSE LET mid == (lo + hi + 1) \div 2
         IN  IF mid * mid <= x THEN SqrtSearch(x, mid, hi)
             ELSE SqrtSearch(x, lo, mid - 1)

\* floor(sqrt(x)) for 0 <= x < 2^31
ISqrt(x) == SqrtSearch(x, 0, 46340)

\* round(sqrt(x))
RSqrt(x) ==
    LET r == ISqrt(x)
    IN  IF x - r * r > r THEN r + 1 ELSE r

\* num / den rounded to the nearest integer, a tie going to the even one
\* (Python's round), for num >= 0 and den > 0
RoundDiv(num, den) ==
    LET q == num \div den
        r == num % den
    IN  IF 2 * r > den THEN q + 1
        ELSE IF 2 * r < den THEN q
        ELSE IF q % 2 = 0 THEN q ELSE q + 1

RECURSIVE SumSeq(_)
SumSeq(s) == IF s = <<>> THEN 0 ELSE Head(s) + SumSeq(Tail(s))

----------------------------------------------------------------------------
(* The arithmetic of the running sums, on binary64 floating-point numbers. *)
(* A non-negative double is written as the whole number of units of        *)
(* 2^-(FractionLimbs * LimbBits) it is worth, in limbs of LimbBits bits,   *)
(* least significant first: every double the aggregation meets (rates from *)
(* 0.01 to 100, their products with the weights, the sums, the quotient)   *)
(* is a whole number of these units.                                       *)

\* The significand of a binary64 number, with its implicit bit.
MantissaBits == 53

LimbBits == 12

FractionLimbs == 6

Base == 2 ^ LimbBits

Zeros(k) == [i \in 1..k |-> 0]

RECURSIVE Limbs(_)
Limbs(n) == IF n = 0 THEN <<>> ELSE <<n % Base>> \o Limbs(n \div Base)

RECURSIVE LimbsToInt(_)
LimbsToInt(b) == IF b = <<>> THEN 0 ELSE Head(b) + Base * LimbsToInt(Tail(b))

\* b without its leading (most significant) zero limbs
RECURSIVE Trim(_)
Trim(b) ==
    IF b = <<>> THEN b
    ELSE IF b[Len(b)] = 0 THEN Trim(SubSeq(b, 1, Len(b) - 1))
    ELSE b

\* a + b + carry, exactly
RECURSIVE LimbAdd(_, _, _)
LimbAdd(a, b, carry) ==
    IF a = <<>> /\ b = <<>> THEN Limbs(carry)
    ELSE LET x == IF a = <<>> THEN 0 ELSE Head(a)
             y == IF b = <<>> THEN 0 ELSE Head(b)
             s == x + y + carry
         IN  <<s % Base>> \o LimbAdd(IF a = <<>> THEN a ELSE Tail(a),
                                     IF b = <<>> THEN b ELSE Tail(b), s \div Base)

\* a * k + carry, exactly, for a small k
RECURSIVE LimbMul(_, _, _)
LimbMul(a, k, carry) ==
    IF a = <<>> THEN Limbs(carry)
    ELSE <<(Head(a) * k + carry) % Base>> \o
             LimbMul(Tail(a), k, (Head(a) * k + carry) \div Base)

\* The quotient q and the remainder r of the limbs i..1 of a, after the
\* remainder rem of the limbs above them, divided by a small d.
RECURSIVE LimbDivFrom(_, _, _, _)
LimbDivFrom(a, i, d, rem) ==
    IF i = 0 THEN [q |-> <<>>, r |-> rem]
    ELSE LET cur == Base * rem + a[i]
             low == LimbDivFrom(a, i - 1, d, cur % d)
         IN  [q |-> Append(low.q, cur \div d), r |-> low.r]

LimbDiv(a, d) == LimbDivFrom(a, Len(a), d, 0)

RECURSIVE BitLength(_)
BitLength(n) == IF n = 0 THEN 0 ELSE 1 + BitLength(n \div 2)

\* The number of bits of a, which has no leading zero limb.
TotalBits(a) ==
    IF a = <<>> THEN 0 ELSE (Len(a) - 1) * LimbBits + BitLength(a[Len(a)])

\* a without its k lowest bits, and whether one of them was set
ShiftRight(a, k) ==
    LET whole == k \div LimbBits
        d == LimbDiv(SubSeq(a, whole + 1, Len(a)), 2 ^ (k % LimbBits))
    IN  [q |-> Trim(d.q),
         sticky |-> d.r # 0 \/ \E i \in 1..whole : a[i] # 0]

\* a * 2^k
ShiftLeft(a, k) == Zeros(k \div LimbBits) \o LimbMul(a, 2 ^ (k % LimbBits), 0)

\* The double nearest to the value b (plus a fraction of a unit when
\* sticky), ties to even: what every floating-point operation returns.
Round53(b, sticky) ==
    LET t == Trim(b)
        k == TotalBits(t) - MantissaBits
        s == ShiftRight(t, k - 1)
        hi == ShiftRight(s.q, 1).q
        up == s.q[1] % 2 = 1 /\ (sticky \/ s.sticky \/ hi[1] % 2 = 1)
    IN  IF k <= 0 THEN t
        ELSE ShiftLeft(IF up THEN Trim(LimbAdd(hi, <<1>>, 0)) ELSE hi, k)

\* The double of ai_rate = round(..., 2), given in hundredths.
FromHundredths(hundredths) ==
    LET d == LimbDiv(Zeros(FractionLimbs) \o Limbs(hundredths), 100)
    IN  Round53(d.q, d.r # 0)

\* x * weight, the weight given in half characters
FloatMul(x, halves) == Round53(ShiftRight(LimbMul(x, halves, 0), 1).q, FALSE)

\* x + y
FloatAdd(x, y) == Round53(LimbAdd(x, y, 0), FALSE)

\* x / weight, the weight given in half characters
FloatDiv(x, halves) ==
    LET d == LimbDiv(LimbMul(x, 2, 0), halves)
    IN  Round53(d.q, d.r # 0)

\* round(x, 2) in hundredths: the exact value of x rounded to two decimals,
\* ties to even.
Round2(x) ==
    LET p == LimbMul(x, 100, 0) \o Zeros(FractionLimbs + 1)
        whole == LimbsToInt(Trim(SubSeq(p, FractionLimbs + 1, Len(p))))
        top == p[FractionLimbs]
        rest == top % (Base \div 2) # 0 \/ \E i \in 1..(FractionLimbs - 1) : p[i] # 0
    IN  IF top >= Base \div 2 /\ (rest \/ whole % 2 = 1) THEN whole + 1 ELSE whole

----------------------------------------------------------------------------
(* The style heuristic, the calibration and the validity policy.           *)

\* floor(num * 10^digits / den) by long division, q and r the quotient and
\* remainder so far
RECURSIVE LongDiv(_, _, _, _)
LongDiv(q, r, den, digits) ==
    IF digits = 0 THEN q
    ELSE LongDiv(10 * q + (10 * r) \div den, (10 * r) % den, den, digits - 1)

\* len(s) > 3: the length of the fragment with its whitespace
LongEnoughUnstripped(s) == Len(s) > 3

\* len(s.strip()) > 3
LongEnough(s) == Len(Strip(s)) > 3

SquareSeq(lengths) == [i \in 1..Len(lengths) |-> lengths[i] * lengths[i]]

\* cv = std_dev / (mean_len + 1e-5) in units of 1/Unit, rounded down.  With
\* n sentences of total length S and sum of squares Q, std_dev / mean_len is
\* sqrt(n*Q - S*S) / S.  The 1e-5 guards a zero mean, which three sentences
\* longer than 3 never have, and is below the resolution 1/Unit.
CoefficientOfVariation(lengths) ==
    LET n == Len(lengths)
        S == SumSeq(lengths)
        Q == SumSeq(SquareSeq(lengths))
        V == n * Q - S * S
    IN  ISqrt(LongDiv(V \div (S * S), V % (S * S), S * S, 8))

\* The bonus without min(..., 0.3).
UncappedHumanFeatures(text) ==
    LET sentences == SelectSeq(SplitSentences(text), LongEnough)
        lengths == [i \in 1..Len(sentences) |-> Len(sentences[i])]
        cv == CoefficientOfVariation(lengths)
    IN  IF Len(sentences) < 3 THEN 0
        ELSE IF cv > 4 * (Unit \div 10)
             THEN ((cv - 4 * (Unit \div 10)) * 6) \div 10
        ELSE 0

\* calculate_human_features(text): the bonus in units of 1/Unit
calculate_human_features(text) ==
    LET sentences == SelectSeq(SplitSentences(text), LongEnough)
        lengths == [i \in 1..Len(sentences) |-> Len(sentences[i])]
        cv == CoefficientOfVariation(lengths)
    IN  IF Len(sentences) < 3 THEN 0
        ELSE IF cv > 4 * (Unit \div 10)
             THEN Min(((cv - 4 * (Unit \div 10)) * 6) \div 10, 3 * (Unit \div 10))
        ELSE 0

\* math.pow(x, self.POWER_FACTOR) with POWER_FACTOR = 3.5, as x^3 * sqrt(x)
\* in fixed point (x in units of 1/Unit, every product rounded to 1/Unit).
Pow35(x) ==
    LET x2 == RoundDiv(x * x, Unit)
        x3 == RoundDiv(x2 * x, Unit)
        sq == RSqrt(x * Unit)
    IN  RoundDiv(x3 * sq, Unit)

\* adjusted_score = max(0.0, human_bonus - raw_ai_score): the operands swapped
AiRateSwapped(raw_ai_score, human_bonus) ==
    LET adjusted_score == Max(0, human_bonus - raw_ai_score)
    IN  Pow35(adjusted_score)

\* adjusted_score = max(0.0, raw_ai_score + human_bonus): the bonus added
AiRateRaised(raw_ai_score, human_bonus) ==
    LET adjusted_score == Max(0, raw_ai_score + human_bonus)
    IN  Pow35(adjusted_score)

\* adjusted_score, final_ai_score and ai_rate = round(final_ai_score * 100, 2)
\* in hundredths of a percent: final_ai_score in units of 1/Unit, Unit = 10^4.
AiRate(raw_ai_score, human_bonus) ==
    LET adjusted_score == Max(0, raw_ai_score - human_bonus)
    IN  Pow35(adjusted_score)

MIN_VALID_CHARS(v) == IF v = "main" THEN MainMinValidChars ELSE CoreMinValidChars

\* para_len in half characters.  main.py: len("".join(para.split())).
\* core_engine.py: chinese_count + alnum_count * 0.5.
ParaLen(v, para) ==
    IF v = "main" THEN HalfChars * Len(RemoveWhitespace(para))
    ELSE HalfChars * Len(SelectSeq(para, IsChinese)) + Len(SelectSeq(para, IsAlnum))

\* is_ignored with "<=" in place of "<"
IsIgnoredInclusive(v, para) == ParaLen(v, para) <= HalfChars * MIN_VALID_CHARS(v)

\* is_ignored = para_len < self.MIN_VALID_CHARS
IsIgnored(v, para) == ParaLen(v, para) < HalfChars * MIN_VALID_CHARS(v)

Weight(v, para) == IF IsIgnored(v, para) THEN 0 ELSE ParaLen(v, para)

----------------------------------------------------------------------------
(* The inputs of a run.                                                    *)

\* The lines a text is made of: a blank line, a paragraph of 9 and one of 10
\* CJK characters (around MIN_VALID_CHARS of main.py), and a paragraph of
\* three sentences of 4, 4 and 14 CJK characters (long enough for both
\* variants, with a positive human bonus).
BlankLine == <<" ">>

NineChars == Rep("zh", 9)

TenChars == Rep("zh", 10)

BurstyParagraph ==
    Rep("zh", 4) \o <<".">> \o Rep("zh", 4) \o <<".">> \o Rep("zh", 14) \o <<".">>

Lines == {BlankLine, NineChars, TenChars, BurstyParagraph}

RECURSIVE JoinLines(_)
JoinLines(ls) ==
    IF ls = <<>> THEN <<>>
    ELSE IF Len(ls) = 1 THEN ls[1]
    ELSE ls[1] \o <<"\n">> \o JoinLines(Tail(ls))

Texts == UNION {{JoinLines(ls) : ls \in [1..n -> Lines]} : n \in 0..MaxLines}

\* self.model_path: empty, a path that does not exist, the model directory
ModelPaths == {"", "missing", "AIGC_Model"}

PathExists(path) == path = "AIGC_Model"

\* raw_ai_score = probs[0][ai_label_id].item(), in units of 1/Unit
RawScores == {5 * (Unit \div 10), 9 * (Unit \div 10)}

\* An exception, as the set of the signature substrings str(e) contains.
Exceptions == SUBSET {"upgrade torch", "v2.6"}

Devices == {"cuda", "mps", "cpu"}

----------------------------------------------------------------------------
(* The state of one AIGCDetectionThread.                                   *)

VARIABLES
    variant,                 \* which engine file runs: "main" or "core_engine"
    text,                    \* self.text
    model_path,              \* self.model_path
    pc,                      \* the position of run()
    paragraphs,              \* the local paragraphs
    idx,                     \* the number of loop iterations done
    results,                 \* the local results
    total_weighted_score,    \* in hundredths of a percent times half characters
    total_valid_weight,      \* in half characters
    emitted,                 \* the signals emitted, in order
    calls,                   \* the classifier calls made, in order
    raised,                  \* the last exception raised, if any
    interruption_requested   \* QThread's interruption flag

\* The state outside the thread: the arguments and the value of a function
\* of the engine evaluated on its own.
VARIABLES
    args,                    \* the arguments, <<>> when none
    ret                      \* the value returned, <<>> before the return

\* A second thread object, running alongside: its state, as a record of
\* the thread's variables, <<>> when there is none.
VARIABLES other

\* The window AIGCSentinel that starts the threads.
VARIABLES
    is_model_valid,          \* self.is_model_valid
    btn_detect,              \* self.btn_detect.isEnabled()
    input_edit,              \* self.input_edit.toPlainText()
    started,                 \* the number of threads run_detection started
    handled                  \* the number of finished events handled

window_vars == <<is_model_valid, btn_detect, input_edit, started, handled>>

outside == <<args, ret, other, window_vars>>

vars ==
    <<variant, text, model_path, pc, paragraphs, idx, results,
      total_weighted_score, total_valid_weight, emitted, calls, raised,
      interruption_requested, args, ret, other, window_vars>>

thread_vars ==
    <<variant, text, model_path, pc, paragraphs, idx, results,
      total_weighted_score, total_valid_weight, emitted, calls, raised,
      interruption_requested>>

\* No function is evaluated on its own.
NoEvaluation == args = <<>> /\ ret = <<>>

\* No window has been constructed.
NoWindow ==
    /\ is_model_valid = FALSE
    /\ btn_detect = FALSE
    /\ input_edit = <<>>
    /\ started = 0
    /\ handled = 0

\* One thread object and nothing else.
OnlyThread == NoEvaluation /\ other = <<>> /\ NoWindow

\* No thread has been constructed.
NoThread ==
    /\ variant = "main"
    /\ text = <<>>
    /\ model_path = ""
    /\ pc = "none"
    /\ paragraphs = <<>>
    /\ idx = 0
    /\ results = <<>>
    /\ total_weighted_score = 0
    /\ total_valid_weight = 0
    /\ emitted = <<>>
    /\ calls = <<>>
    /\ raised = <<>>
    /\ interruption_requested = FALSE

\* A function of the engine evaluated on its own, and nothing else.
OnlyEvaluation == NoThread /\ other = <<>> /\ NoWindow

Progress(v) == [sig |-> "progress", val |-> v]

Status(i, n) == [sig |-> "status", val |-> <<i, n>>]

\* device_signal.emit(msg, is_gpu): the event keeps is_gpu
Device(d) == [sig |-> "device", val |-> (d # "cpu")]

Result(res) == [sig |-> "result", val |-> res]

ErrorResult(kind) == Result([error |-> kind])

\* "upgrade torch" in str(e) and "v2.6" in str(e)
IsVersionConflict(e) == "upgrade torch" \in e /\ "v2.6" \in e

Init ==
    /\ variant \in Variants
    /\ text \in Texts
    /\ model_path \in ModelPaths
    /\ pc = "start"
    /\ paragraphs = <<>>
    /\ idx = 0
    /\ results = <<>>
    /\ total_weighted_score = 0
    /\ total_valid_weight = 0
    /\ emitted = <<>>
    /\ calls = <<>>
    /\ raised = <<>>
    /\ interruption_requested = FALSE
    /\ OnlyThread

----------------------------------------------------------------------------
(* The pieces of the loop body and of the handlers.                        *)

\* results.append({"content": para, "ai_rate": ai_rate, "is_ignored": is_ignored})
Scored(v, para, raw_ai_score) ==
    [content |-> para,
     ai_rate |-> AiRate(raw_ai_score, calculate_human_features(para)),
     is_ignored |-> IsIgnored(v, para)]

\* results.insert(0, ...) in place of results.append(...)
PrependResult(list, rec) == <<rec>> \o list

\* results.append(...)
AppendResult(list, rec) == Append(list, rec)

\* The score added without the test of is_ignored and with weight para_len.
ScoreOfEveryParagraph(v, para, ai_rate) == ai_rate * ParaLen(v, para)

\* if not is_ignored: total_weighted_score += ai_rate, the weight left out
AddedScoreUnweighted(v, para, ai_rate) ==
    IF ~IsIgnored(v, para) THEN ai_rate ELSE 0

\* if not is_ignored: total_weighted_score += ai_rate * weight
AddedScore(v, para, ai_rate) ==
    IF ~IsIgnored(v, para) THEN ai_rate * Weight(v, para) ELSE 0

\* The weight added without the test of is_ignored and with weight para_len.
WeightOfEveryParagraph(v, para) == ParaLen(v, para)

\* if not is_ignored: total_valid_weight += weight
AddedWeight(v, para) ==
    IF ~IsIgnored(v, para) THEN Weight(v, para) ELSE 0

\* 30 + int((idx / len(paragraphs)) * 65): the progress of the index before
LoopProgressBefore(i, n) == 30 + (65 * i) \div n

\* 30 + round(((idx + 1) / len(paragraphs)) * 65): rounded, not truncated
LoopProgressRounded(i, n) == 30 + RoundDiv(65 * (i + 1), n)

\* The double of a whole number.
FromInt(k) == Zeros(FractionLimbs) \o Limbs(k)

\* int(x): the whole part of x
IntOf(x) == LimbsToInt(SubSeq(x, FractionLimbs + 1, Len(x)))

\* The largest number of paragraphs the table of progress values covers.
MaxTotal == 65

\* The value of 30 + int((k / n) * 65) in floating point, for n paragraphs
\* and k of them done: a division, a product and a truncation.
ProgressTable ==
    [n \in 1..MaxTotal |->
        [k \in 1..n |-> 30 + IntOf(FloatMul(FloatDiv(FromInt(k), 2 * n), 2 * 65))]]

\* 30 + int(((idx + 1) / len(paragraphs)) * 65), i the 0-based index
LoopProgress(i, n) == ProgressTable[n][i + 1]

\* avg = int(total_weighted_score / total_valid_weight * 100) / 100: the
\* average cut after two decimals instead of rounded
AverageCut(weighted_score, valid_weight) ==
    IF valid_weight > 0 THEN weighted_score \div valid_weight ELSE 0

\* avg = round(total_weighted_score / total_valid_weight, 2)
\*       if total_valid_weight > 0 else 0
Average(weighted_score, valid_weight) ==
    IF valid_weight > 0 THEN RoundDiv(weighted_score, valid_weight) ELSE 0

\* The outer handler with "or" in place of "and".
HandlerResultEither(e) ==
    IF "upgrade torch" \in e \/ "v2.6" \in e
    THEN ErrorResult("EnvironmentConflict")
    ELSE ErrorResult("InferenceError")

\* The result the outer handler emits for exception e.
HandlerResult(e) ==
    IF IsVersionConflict(e) THEN ErrorResult("EnvironmentConflict")
    ELSE ErrorResult("InferenceError")

\* An inner handler that re-raises every exception.
ReraiseEverything(e) == TRUE

\* An inner handler that swallows every exception.
SwallowEverything(e) == FALSE

\* The inner handler with "or" in place of "and".
ReraisedOnEither(e) == "upgrade torch" \in e \/ "v2.6" \in e

\* The inner handler re-raises e (raise e) instead of swallowing it.
Reraised(e) == IsVersionConflict(e)

----------------------------------------------------------------------------
(* The steps of run().                                                     *)

\* The path check without its return: the run goes on after the error.
CheckModelPathNoReturn ==
    /\ pc = "start"
    /\ IF model_path = "" \/ ~PathExists(model_path)
       THEN emitted' = Append(emitted, ErrorResult("ModelPathInvalid"))
       ELSE emitted' = emitted
    /\ pc' = "detect"
    /\ UNCHANGED <<variant, text, model_path, paragraphs, idx, results,
                   total_weighted_score, total_valid_weight, calls, raised,
                   interruption_requested>>
    /\ UNCHANGED outside

\* The path check with "and" in place of "or".
CheckModelPathBoth ==
    /\ pc = "start"
    /\ IF model_path = "" /\ ~PathExists(model_path)
       THEN /\ emitted' = Append(emitted, ErrorResult("ModelPathInvalid"))
            /\ pc' = "finished"
       ELSE /\ emitted' = emitted
            /\ pc' = "detect"
    /\ UNCHANGED <<variant, text, model_path, paragraphs, idx, results,
                   total_weighted_score, total_valid_weight, calls, raised,
                   interruption_requested>>
    /\ UNCHANGED outside

\* if not self.model_path or not os.path.exists(self.model_path): ... return
CheckModelPath ==
    /\ pc = "start"
    /\ IF model_path = "" \/ ~PathExists(model_path)
       THEN /\ emitted' = Append(emitted, ErrorResult("ModelPathInvalid"))
            /\ pc' = "finished"
       ELSE /\ emitted' = emitted
            /\ pc' = "detect"
    /\ UNCHANGED <<variant, text, model_path, paragraphs, idx, results,
                   total_weighted_score, total_valid_weight, calls, raised,
                   interruption_requested>>
    /\ UNCHANGED outside

\* The imports and the hardware detection, up to the status "loading".
DetectDevice ==
    /\ pc = "detect"
    /\ \E d \in Devices :
           emitted' = emitted \o <<Device(d), Progress(10), Status(0, 0)>>
    /\ pc' = "load"
    /\ UNCHANGED <<variant, text, model_path, paragraphs, idx, results,
                   total_weighted_score, total_valid_weight, calls, raised,
                   interruption_requested>>
    /\ UNCHANGED outside

\* from_pretrained, model.to, model.eval, progress 30, the AI label id
LoadModel ==
    /\ pc = "load"
    /\ emitted' = Append(emitted, Progress(30))
    /\ pc' = "segment"
    /\ UNCHANGED <<variant, text, model_path, paragraphs, idx, results,
                   total_weighted_score, total_valid_weight, calls, raised,
                   interruption_requested>>
    /\ UNCHANGED outside

\* An exception of the imports, of the hardware detection or of the loading
\* reaches the outer handler.
LoadFails ==
    /\ pc \in {"detect", "load"}
    /\ \E e \in Exceptions :
           /\ emitted' = Append(emitted, HandlerResult(e))
           /\ raised' = <<e>>
    /\ pc' = "finished"
    /\ UNCHANGED <<variant, text, model_path, paragraphs, idx, results,
                   total_weighted_score, total_valid_weight, calls,
                   interruption_requested>>
    /\ UNCHANGED outside

\* The segmentation, the early return on no paragraph, the loop's locals.
SegmentText ==
    /\ pc = "segment"
    /\ paragraphs' = Segment(text)
    /\ IF Segment(text) = <<>>
       THEN /\ emitted' = Append(emitted,
                    Result([total_ai_rate |-> 0, paragraphs |-> <<>>]))
            /\ pc' = "finished"
       ELSE /\ emitted' = emitted
            /\ pc' = "loop"
    /\ results' = <<>>
    /\ total_weighted_score' = 0
    /\ total_valid_weight' = 0
    /\ UNCHANGED <<variant, text, model_path, idx, calls, raised,
                   interruption_requested>>
    /\ UNCHANGED outside

\* One iteration of a loop that tests is_ignored first and goes on to the next
\* paragraph without classifying or recording an ignored one.
ClassifyParagraphUnlessIgnored ==
    /\ pc = "loop"
    /\ idx < Len(paragraphs)
    /\ \E raw_ai_score \in RawScores :
           LET para == paragraphs[idx + 1]
               rec == Scored(variant, para, raw_ai_score)
           IN  IF IsIgnored(variant, para)
               THEN UNCHANGED <<results, total_weighted_score,
                                total_valid_weight, calls>>
               ELSE /\ results' = AppendResult(results, rec)
                    /\ total_weighted_score' =
                           total_weighted_score + AddedScore(variant, para, rec.ai_rate)
                    /\ total_valid_weight' =
                           total_valid_weight + AddedWeight(variant, para)
                    /\ calls' = Append(calls, [outcome |-> "ok", raw |-> raw_ai_score])
    /\ emitted' = emitted \o <<Status(idx + 1, Len(paragraphs)),
                               Progress(LoopProgress(idx, Len(paragraphs)))>>
    /\ idx' = idx + 1
    /\ raised' = <<>>
    /\ UNCHANGED <<variant, text, model_path, pc, paragraphs,
                   interruption_requested>>
    /\ UNCHANGED outside

\* One iteration of the loop whose classifier call returns raw_ai_score.
ClassifyParagraph ==
    /\ pc = "loop"
    /\ idx < Len(paragraphs)
    /\ \E raw_ai_score \in RawScores :
           LET para == paragraphs[idx + 1]
               rec == Scored(variant, para, raw_ai_score)
           IN  /\ results' = AppendResult(results, rec)
               /\ total_weighted_score' =
                      total_weighted_score + AddedScore(variant, para, rec.ai_rate)
               /\ total_valid_weight' =
                      total_valid_weight + AddedWeight(variant, para)
               /\ calls' = Append(calls, [outcome |-> "ok", raw |-> raw_ai_score])
    /\ emitted' = emitted \o <<Status(idx + 1, Len(paragraphs)),
                               Progress(LoopProgress(idx, Len(paragraphs)))>>
    /\ idx' = idx + 1
    /\ raised' = <<>>
    /\ UNCHANGED <<variant, text, model_path, pc, paragraphs,
                   interruption_requested>>
    /\ UNCHANGED outside

\* One iteration of the loop whose classifier call raises e: the inner
\* handler re-raises a version conflict to the outer handler, and prints and
\* swallows anything else.
ParagraphFails ==
    /\ pc = "loop"
    /\ idx < Len(paragraphs)
    /\ \E e \in Exceptions :
           /\ raised' = <<e>>
           /\ IF Reraised(e)
              THEN /\ emitted' = emitted \o <<Status(idx + 1, Len(paragraphs)),
                                              HandlerResult(e)>>
                   /\ calls' = Append(calls, [outcome |-> "raised", raw |-> 0])
                   /\ pc' = "finished"
                   /\ idx' = idx
              ELSE /\ emitted' = emitted \o
                          <<Status(idx + 1, Len(paragraphs)),
                            Progress(LoopProgress(idx, Len(paragraphs)))>>
                   /\ calls' = Append(calls, [outcome |-> "raised", raw |-> 0])
                   /\ pc' = "loop"
                   /\ idx' = idx + 1
    /\ UNCHANGED <<variant, text, model_path, paragraphs, results,
                   total_weighted_score, total_valid_weight,
                   interruption_requested>>
    /\ UNCHANGED outside

\* After the loop: the average and the aggregate result.
Finish ==
    /\ pc = "loop"
    /\ idx = Len(paragraphs)
    /\ emitted' = Append(emitted,
           Result([total_ai_rate |->
                       Average(total_weighted_score, total_valid_weight),
                   paragraphs |-> results]))
    /\ pc' = "finished"
    /\ UNCHANGED <<variant, text, model_path, paragraphs, idx, results,
                   total_weighted_score, total_valid_weight, calls, raised,
                   interruption_requested>>
    /\ UNCHANGED outside

\* A caller asks the running thread to stop (QThread.requestInterruption).
RequestInterruption ==
    /\ pc # "finished"
    /\ ~interruption_requested
    /\ interruption_requested' = TRUE
    /\ UNCHANGED <<variant, text, model_path, pc, paragraphs, idx, results,
                   total_weighted_score, total_valid_weight, emitted, calls,
                   raised>>
    /\ UNCHANGED outside

Next ==
    \/ CheckModelPath
    \/ DetectDevice
    \/ LoadModel
    \/ LoadFails
    \/ SegmentText
    \/ ClassifyParagraph
    \/ ParagraphFails
    \/ Finish
    \/ RequestInterruption

Spec == Init /\ [][Next]_vars

----------------------------------------------------------------------------
(* What the properties below speak of.                                     *)

Last(s) == s[Len(s)]

IsResultEvent(e) == e.sig = "result"

IsProgressEvent(e) == e.sig = "progress"

\* The events emitted on result_signal, in order.
ResultEvents == SelectSeq(emitted, IsResultEvent)

IsAggregate(e) == e.sig = "result" /\ "total_ai_rate" \in DOMAIN e.val

IsError(e) == e.sig = "result" /\ "error" \in DOMAIN e.val

IsErrorOf(e, kind) == IsError(e) /\ e.val.error = kind

\* The run has ended with an aggregate result.
Completed == pc = "finished" /\ emitted # <<>> /\ IsAggregate(Last(emitted))

\* The run has ended with an error.
Failed == pc = "finished" /\ emitted # <<>> /\ IsError(Last(emitted))

\* str(e) of a version conflict holds both signature substrings.
ConflictSignature == {"upgrade torch", "v2.6"}

\* The last classifier call raised a version conflict.
ConflictAtParagraph ==
    /\ calls # <<>>
    /\ Last(calls).outcome = "raised"
    /\ raised = <<ConflictSignature>>

Indices(n) == [i \in 1..n |-> i]

\* The indices of the classified paragraphs the policy does not ignore.
ValidIndices ==
    SelectSeq(Indices(Len(calls)), LAMBDA i : ~IsIgnored(variant, paragraphs[i]))

\* The indices of the paragraphs whose classification returned.
OkIndices == SelectSeq(Indices(Len(calls)), LAMBDA i : calls[i].outcome = "ok")

Pick(s, indices) == [k \in 1..Len(indices) |-> s[indices[k]]]

Contents(list) == [i \in 1..Len(list) |-> list[i].content]

\* The sums the loop reaches over paras when the classifier answers answers.
RECURSIVE LoopSums(_, _, _)
LoopSums(v, paras, answers) ==
    IF paras = <<>> THEN <<0, 0>>
    ELSE LET n == Len(paras)
             before == LoopSums(v, SubSeq(paras, 1, n - 1), SubSeq(answers, 1, n - 1))
             rec == Scored(v, paras[n], answers[n].raw)
         IN  IF answers[n].outcome = "ok"
             THEN <<before[1] + AddedScore(v, paras[n], rec.ai_rate),
                    before[2] + AddedWeight(v, paras[n])>>
             ELSE before

\* total_ai_rate of a run over paras that no version conflict ends.
RunTotal(v, paras, answers) ==
    LET sums == LoopSums(v, paras, answers)
    IN  IF paras = <<>> THEN 0 ELSE Average(sums[1], sums[2])

----------------------------------------------------------------------------
(* C1.  An ignored paragraph has weight 0 and is never added to the sums:  *)
(* at every point of the loop the running sums are those of the loop over  *)
(* the paragraphs classified so far with the ignored ones removed, and the *)
(* emitted total_ai_rate is the one of a run over the input with the       *)
(* ignored paragraphs removed.                                             *)
C1_IgnoredNeverCounts ==
    /\ \A i \in 1..Len(results) :
           results[i].is_ignored => Weight(variant, results[i].content) = 0
    /\ pc = "loop" =>
           <<total_weighted_score, total_valid_weight>> =
               LoopSums(variant, Pick(paragraphs, ValidIndices), Pick(calls, ValidIndices))
    /\ Completed =>
           Last(emitted).val.total_ai_rate =
               RunTotal(variant, Pick(paragraphs, ValidIndices), Pick(calls, ValidIndices))

\* A completed run with an ignored and a valid paragraph in its result.
C1_Witness ==
    /\ Completed
    /\ \E i, j \in 1..Len(results) :
           results[i].is_ignored /\ ~results[j].is_ignored
    /\ Last(emitted).val.total_ai_rate > 0

(* C2.  The total_ai_rate of a completed run lies between the least and    *)
(* the greatest ai_rate of the non-ignored paragraphs of its result list,  *)
(* and is 0 when none is valid, that is when the total valid weight is 0.  *)
C2_TotalWithinRange ==
    Completed =>
        LET res == Last(emitted).val
            valid == {i \in 1..Len(res.paragraphs) : ~res.paragraphs[i].is_ignored}
        IN  /\ (valid = {}) <=> (total_valid_weight = 0)
            /\ valid = {} => res.total_ai_rate = 0
            /\ valid # {} =>
                   /\ \E i \in valid : res.paragraphs[i].ai_rate <= res.total_ai_rate
                   /\ \E j \in valid : res.total_ai_rate <= res.paragraphs[j].ai_rate

\* A completed run whose total is strictly between two valid paragraphs' rates.
C2_Witness ==
    /\ Completed
    /\ \E i, j \in 1..Len(results) :
           /\ ~results[i].is_ignored /\ ~results[j].is_ignored
           /\ results[i].ai_rate < Last(emitted).val.total_ai_rate
           /\ Last(emitted).val.total_ai_rate < results[j].ai_rate

(* C3.  A classification error that is not a version conflict adds the     *)
(* paragraph neither to the result list nor to the sums, and the loop goes *)
(* on with the next paragraph; a run that classified paragraphs and did    *)
(* not end on a version conflict has called the classifier on every        *)
(* paragraph and ends with an aggregate result holding exactly the         *)
(* paragraphs whose classification returned.                               *)
C3_SwallowedStep ==
    (/\ calls' # calls
     /\ Last(calls').outcome = "raised"
     /\ raised' # <<ConflictSignature>>)
    => /\ results' = results
       /\ total_weighted_score' = total_weighted_score
       /\ total_valid_weight' = total_valid_weight
       /\ pc' = "loop"
       /\ idx' = idx + 1
       /\ Len(emitted') = Len(emitted) + 2
       /\ ~IsResultEvent(Last(emitted'))

C3_RunGoesOn ==
    /\ Len(results) = Len(OkIndices)
    /\ (pc = "finished" /\ calls # <<>> /\ ~ConflictAtParagraph) =>
           /\ Completed
           /\ Len(calls) = Len(paragraphs)
           /\ Len(Last(emitted).val.paragraphs) = Len(OkIndices)

C3_GenericErrorSkipped == []C3_RunGoesOn /\ [][C3_SwallowedStep]_vars

\* A completed run with a swallowed error followed by a scored paragraph.
C3_Witness ==
    /\ Completed
    /\ \E i, j \in 1..Len(calls) :
           i < j /\ calls[i].outcome = "raised" /\ calls[j].outcome = "ok"

(* C4.  A version conflict raised by a paragraph's classification ends the *)
(* run at that paragraph: the run is finished (no step is left to it), no *)
(* later paragraph was classified, the only event on result_signal is the  *)
(* EnvironmentConflict error, which carries no paragraph, and it is the    *)
(* last event emitted.                                                     *)
C4_ConflictAborts ==
    ConflictAtParagraph =>
        /\ pc = "finished"
        /\ Len(calls) = idx + 1
        /\ Len(ResultEvents) = 1
        /\ Last(emitted) = ErrorResult("EnvironmentConflict")
        /\ DOMAIN Last(emitted).val = {"error"}

\* A conflict after a scored paragraph and before an unclassified one.
C4_Witness ==
    /\ ConflictAtParagraph
    /\ results # <<>>
    /\ Len(calls) < Len(paragraphs)

(* C5.  A run emits at most one event on result_signal, it has emitted     *)
(* exactly one when it has ended, that event is the last event it emits    *)
(* (no progress follows it), and a run that has not ended can take a step. *)
CanStep ==
    \/ pc \in {"start", "detect", "load", "segment"}
    \/ pc = "loop" /\ idx <= Len(paragraphs)

C5_OneTerminalEvent ==
    /\ Len(ResultEvents) <= 1
    /\ (pc = "finished") <=> (Len(ResultEvents) = 1)
    /\ Len(ResultEvents) = 1 => IsResultEvent(Last(emitted))
    /\ pc # "finished" => CanStep

\* A run that ended with an aggregate result after progress events.
C5_Witness ==
    /\ Completed
    /\ Len(SelectSeq(emitted, IsProgressEvent)) > 2

(* C6.  The flag is checked before each paragraph's classifier call: once  *)
(* it is set, the loop starts no further classifier call and emits no      *)
(* completion event.                                                       *)
C6_CancellationStops ==
    [][(interruption_requested /\ pc = "loop") =>
           (calls' = calls /\ ResultEvents' = ResultEvents)]_vars

(* C7.  The result list holds the paragraphs whose classification          *)
(* returned, in the order of the segmentation, and the emitted aggregate   *)
(* carries that list.                                                      *)
C7_ResultOrder ==
    /\ Contents(results) = Pick(paragraphs, OkIndices)
    /\ Completed => Last(emitted).val.paragraphs = results

\* A completed run with two different paragraphs around a skipped one.
C7_Witness ==
    /\ Completed
    /\ Len(results) >= 2
    /\ results[1].content # results[2].content
    /\ \E i \in 1..Len(calls) : calls[i].outcome = "raised"

(* C8 as stated.  A run fails only with EnvironmentConflict or             *)
(* ModelPathInvalid.                                                       *)
C8_OnlyTwoFailures ==
    Failed => \/ IsErrorOf(Last(emitted), "EnvironmentConflict")
              \/ IsErrorOf(Last(emitted), "ModelPathInvalid")

(* C8 amended.  A run fails with ModelPathInvalid (the path check), with   *)
(* EnvironmentConflict (a version conflict, raised anywhere), or with the  *)
(* generic engine error, which only an exception that is not a version     *)
(* conflict and is raised before the loop (imports, hardware detection,    *)
(* loading) produces; such an exception raised by a paragraph's            *)
(* classification never ends the run.                                      *)
C8_FailureKinds ==
    /\ Failed =>
           \/ /\ IsErrorOf(Last(emitted), "ModelPathInvalid")
              /\ model_path \in {"", "missing"}
              /\ raised = <<>>
           \/ /\ IsErrorOf(Last(emitted), "EnvironmentConflict")
              /\ raised = <<ConflictSignature>>
           \/ /\ IsErrorOf(Last(emitted), "InferenceError")
              /\ raised # <<>> /\ raised # <<ConflictSignature>>
              /\ calls = <<>> /\ paragraphs = <<>>
    /\ (pc = "finished" /\ calls # <<>> /\ raised # <<ConflictSignature>>) => Completed

\* A run the generic engine error ended.
C8_Witness == Failed /\ IsErrorOf(Last(emitted), "InferenceError")

(* C9.  With an empty or non-existent model path the run ends at the path  *)
(* check: its only event is the ModelPathInvalid error, no classifier call *)
(* is made and nothing is loaded or segmented.                             *)
C9_InvalidModelPath ==
    (model_path \in {"", "missing"} /\ pc # "start") =>
        /\ pc = "finished"
        /\ emitted = <<ErrorResult("ModelPathInvalid")>>
        /\ calls = <<>>
        /\ paragraphs = <<>>
        /\ results = <<>>

\* A run with a path that does not exist, after its path check.
C9_Witness == model_path = "missing" /\ pc = "finished"

(* C10.  When every character of the text is whitespace, a run that gets   *)
(* past the loading never enters the loop and never calls the classifier,  *)
(* and it ends with the aggregate result of total_ai_rate 0 and no         *)
(* paragraph.                                                              *)
C10_EmptyText ==
    (\A i \in 1..Len(text) : text[i] \in {" ", "\n"}) =>
        /\ pc # "loop"
        /\ calls = <<>>
        /\ (pc = "finished" /\ model_path = "AIGC_Model" /\ raised = <<>>) =>
               Last(emitted) = Result([total_ai_rate |-> 0, paragraphs |-> <<>>])

\* A whitespace-only, non-empty text whose run ended with the empty result.
C10_Witness ==
    /\ text # <<>>
    /\ \A i \in 1..Len(text) : text[i] \in {" ", "\n"}
    /\ Completed

----------------------------------------------------------------------------
(* The events of the loop.                                                 *)

\* The events k iterations over n paragraphs have emitted: before each
\* paragraph the status with its 1-based index and n, after it the progress.
LoopEvents(k, n) ==
    [j \in 1..(2 * k) |->
        IF j % 2 = 1 THEN Status((j + 1) \div 2, n)
        ELSE [sig |-> "progress", val |-> 30 + (65 * (j \div 2)) \div n]]

\* The events of the hardware detection and of the loading.
SetupLen == 4

(* C11 as stated.  The progress event emitted after a paragraph carries    *)
(* that paragraph's index and the total n: no other index and total give   *)
(* the value it carries.                                                   *)
C11_ProgressCarriesIndexAndTotal ==
    (pc = "loop" /\ idx > 0) =>
        /\ Last(emitted).sig = "progress"
        /\ \A n \in 1..MaxLines : \A i \in 1..n :
               LoopProgress(i - 1, n) = Last(emitted).val =>
                   <<i, n>> = <<idx, Len(paragraphs)>>

(* C11 amended.  In a run over n >= 1 paragraphs the events after the      *)
(* setup are, for each paragraph in order, one status event with the       *)
(* paragraph's 1-based index and n before its processing and one progress  *)
(* event with the percentage 30 + floor(65 * index / n) after it, whether  *)
(* the classification returned or its error was swallowed; a completed run *)
(* then emits the terminal event and nothing else, and a paragraph that    *)
(* raises a version conflict gets no progress event: the error event       *)
(* follows its status event.                                               *)
C11_ProgressPerParagraph ==
    (pc \in {"loop", "finished"} /\ paragraphs # <<>>) =>
        LET n == Len(paragraphs)
            body == SubSeq(emitted, SetupLen + 1, Len(emitted))
        IN  /\ pc = "loop" => body = LoopEvents(idx, n)
            /\ Completed =>
                   /\ idx = n
                   /\ body = LoopEvents(n, n) \o <<Last(emitted)>>
            /\ ConflictAtParagraph =>
                   body = LoopEvents(idx, n) \o
                              <<Status(idx + 1, n), ErrorResult("EnvironmentConflict")>>

\* A completed run over three paragraphs, one of them with a swallowed error.
C11_Witness ==
    /\ Completed
    /\ Len(paragraphs) = 3
    /\ \E i \in 1..Len(calls) : calls[i].outcome = "raised"

----------------------------------------------------------------------------
(* The validity policy on its own: para_len, is_ignored and weight of one  *)
(* paragraph, for paragraphs around MIN_VALID_CHARS of both variants.      *)

MaxChinese == 20

MaxAlnum == 2

\* Paragraphs of up to MaxChinese CJK characters, with or without a space,
\* up to MaxAlnum alphanumeric characters and a comma; none is blank, as
\* the segmentation keeps no blank paragraph.
PolicyParagraphs ==
    {p \in {Rep("zh", k) \o sp \o Rep("a", m) \o pu :
                k \in 0..MaxChinese, m \in 0..MaxAlnum,
                sp \in {<<>>, <<" ">>}, pu \in {<<>>, <<",">>}} : NonBlank(p)}

PolicyInit ==
    /\ OnlyEvaluation
    /\ args \in Variants \X PolicyParagraphs
    /\ ret = <<>>

\* valid_chars, para_len, is_ignored and weight of the loop body
ValidityPolicy ==
    /\ args # <<>>
    /\ ret = <<>>
    /\ ret' = <<[para_len |-> ParaLen(args[1], args[2]),
                 is_ignored |-> IsIgnored(args[1], args[2]),
                 weight |-> Weight(args[1], args[2])]>>
    /\ UNCHANGED <<args, thread_vars, other, window_vars>>

PolicySpec == PolicyInit /\ [][ValidityPolicy]_vars

(* C12.  A paragraph whose effective length is exactly MIN_VALID_CHARS - 1 *)
(* is ignored and has weight 0, and one whose effective length is exactly  *)
(* MIN_VALID_CHARS is not ignored and has its effective length as weight   *)
(* (lengths in half characters; MIN_VALID_CHARS and the effective length   *)
(* are those of the variant).                                              *)
C12_IgnoreThreshold ==
    ret # <<>> =>
        LET least == HalfChars * MIN_VALID_CHARS(args[1])
        IN  /\ ret[1].para_len = least - HalfChars =>
                   ret[1].is_ignored /\ ret[1].weight = 0
            /\ ret[1].para_len = least =>
                   ~ret[1].is_ignored /\ ret[1].weight = least

\* A paragraph of core_engine.py with letters whose effective length is
\* exactly MIN_VALID_CHARS, after the policy was applied to it.
C12_Witness ==
    /\ ret # <<>>
    /\ args[1] = "core_engine"
    /\ \E i \in 1..Len(args[2]) : args[2][i] = "a"
    /\ ret[1].para_len = HalfChars * CoreMinValidChars
    /\ ~ret[1].is_ignored

----------------------------------------------------------------------------
(* calculate_human_features on its own, for paragraphs of up to            *)
(* MaxSentences sentences.                                                 *)

MaxSentences == 4

\* The sentences a paragraph is made of: 1, 3, 4, 9 and 30 CJK characters,
\* and 3 CJK characters after a space (4 characters, 3 when stripped).
FeatureSentences ==
    {Rep("zh", 1), Rep("zh", 3), Rep("zh", 4), Rep("zh", 9), Rep("zh", 30),
     <<" ">> \o Rep("zh", 3)}

RECURSIVE JoinSentences(_)
JoinSentences(ss) ==
    IF ss = <<>> THEN <<>> ELSE Head(ss) \o <<".">> \o JoinSentences(Tail(ss))

FeatureTexts ==
    UNION {{JoinSentences(ss) : ss \in [1..n -> FeatureSentences]} :
               n \in 0..MaxSentences}

FeatureInit ==
    /\ OnlyEvaluation
    /\ args \in {<<t>> : t \in FeatureTexts}
    /\ ret = <<>>

\* human_bonus = self.calculate_human_features(para)
HumanFeatures ==
    /\ args # <<>>
    /\ ret = <<>>
    /\ ret' = <<calculate_human_features(args[1])>>
    /\ UNCHANGED <<args, thread_vars, other, window_vars>>

FeatureSpec == FeatureInit /\ [][HumanFeatures]_vars

(* C13.  For every paragraph text the bonus calculate_human_features       *)
(* returns is at least 0 and at most 0.3.                                  *)
C13_BonusBounded ==
    ret # <<>> => 0 <= ret[1] /\ ret[1] <= 3 * (Unit \div 10)

\* A text whose bonus is the cap 0.3, and that has a short sentence dropped.
C13_Witness ==
    /\ ret = <<3 * (Unit \div 10)>>
    /\ Len(SplitSentences(args[1])) > Len(SelectSeq(SplitSentences(args[1]), LongEnough)) + 1

----------------------------------------------------------------------------
(* The calibration on its own: ai_rate of a raw probability and a bonus,   *)
(* evaluated for two pairs of them.                                        *)

ProbSteps == 25

\* raw_ai_score: the probabilities 0, 1/ProbSteps, ..., 1 in units of 1/Unit
ProbGrid == {(k * Unit) \div ProbSteps : k \in 0..ProbSteps}

\* human_bonus: 0, the bonus 0.0096 of sentence lengths 9, 4, 4, 0.15 and the
\* cap 0.3, in units of 1/Unit
BonusGrid == {0, 96, 15 * (Unit \div 100), 3 * (Unit \div 10)}

CalibrateInit ==
    /\ OnlyEvaluation
    /\ args \in (ProbGrid \X BonusGrid) \X (ProbGrid \X BonusGrid)
    /\ ret = <<>>

\* adjusted_score, final_ai_score and ai_rate of the loop body, for each pair
Calibrate ==
    /\ args # <<>>
    /\ ret = <<>>
    /\ ret' = [i \in 1..Len(args) |-> AiRate(args[i][1], args[i][2])]
    /\ UNCHANGED <<args, thread_vars, other, window_vars>>

CalibrateSpec == CalibrateInit /\ [][Calibrate]_vars

(* C14.  For a fixed human bonus the calibrated score is monotone          *)
(* non-decreasing in the raw probability: of two evaluations with the same *)
(* bonus, the one with the greater or equal raw probability has the        *)
(* greater or equal ai_rate.                                               *)
C14_CalibrationMonotone ==
    (ret # <<>> /\ args[1][2] = args[2][2] /\ args[1][1] >= args[2][1]) =>
        ret[1] >= ret[2]

\* Two raw probabilities with the same positive bonus and different rates.
C14_Witness ==
    /\ ret # <<>>
    /\ args[1][2] = args[2][2] /\ args[1][2] > 0
    /\ args[1][1] > args[2][1]
    /\ ret[1] > ret[2] /\ ret[2] > 0

(* C15.  For every raw probability in [0, 1] and every bonus in [0, 0.3]   *)
(* the ai_rate lies in [0, 100] (here in hundredths of a percent), and it  *)
(* is never greater than the ai_rate of the same raw probability with      *)
(* bonus 0.                                                                *)
C15_RateBounded ==
    ret # <<>> =>
        /\ \A i \in 1..Len(ret) : 0 <= ret[i] /\ ret[i] <= 100 * 100
        /\ (args[1][1] = args[2][1] /\ args[2][2] = 0) => ret[1] <= ret[2]

\* A raw probability smaller than its bonus: the rate is 0, not negative,
\* and the rate without the bonus is positive.
C15_Witness ==
    /\ ret # <<>>
    /\ args[1][1] = args[2][1] /\ args[2][2] = 0
    /\ args[1][1] < args[1][2]
    /\ ret[1] = 0 /\ ret[2] > 0

----------------------------------------------------------------------------
(* The aggregation on its own: the running sums and the average over a     *)
(* sequence of scored paragraphs, each given by its ai_rate (hundredths of *)
(* a percent) and its weight (half characters, 0 when ignored).            *)

\* The sums with "total_valid_weight = weight" in place of "+=".
RECURSIVE FloatSumsLastWeight(_)
FloatSumsLastWeight(pairs) ==
    IF pairs = <<>> THEN [score |-> <<>>, weight |-> 0]
    ELSE LET n == Len(pairs)
             before == FloatSumsLastWeight(SubSeq(pairs, 1, n - 1))
         IN  IF pairs[n].weight > 0
             THEN [score |-> FloatAdd(before.score,
                                 FloatMul(FromHundredths(pairs[n].ai_rate),
                                          pairs[n].weight)),
                   weight |-> pairs[n].weight]
             ELSE before

\* total_weighted_score and total_valid_weight after the loop over pairs:
\* if not is_ignored: total_weighted_score += ai_rate * weight
\*                    total_valid_weight += weight
RECURSIVE FloatSums(_)
FloatSums(pairs) ==
    IF pairs = <<>> THEN [score |-> <<>>, weight |-> 0]
    ELSE LET n == Len(pairs)
             before == FloatSums(SubSeq(pairs, 1, n - 1))
         IN  IF pairs[n].weight > 0
             THEN [score |-> FloatAdd(before.score,
                                 FloatMul(FromHundredths(pairs[n].ai_rate),
                                          pairs[n].weight)),
                   weight |-> before.weight + pairs[n].weight]
             ELSE before

\* avg = round(total_weighted_score / total_valid_weight, 2)
\*       if total_valid_weight > 0 else 0
FloatAverage(sums) ==
    IF sums.weight > 0 THEN Round2(FloatDiv(sums.score, sums.weight)) ELSE 0

MaxPairs == 3

\* The scored paragraphs: 6.79 and 90.77 of 17 characters, 83.81 of 34,
\* 69.16 of 23, and an ignored one.
ScoredPairs ==
    {[ai_rate |-> 679, weight |-> 34], [ai_rate |-> 9077, weight |-> 34],
     [ai_rate |-> 8381, weight |-> 68], [ai_rate |-> 6916, weight |-> 46],
     [ai_rate |-> 6916, weight |-> 0]}

Orders(n) == {f \in [1..n -> 1..n] : \A i, j \in 1..n : f[i] = f[j] => i = j}

\* A sequence of up to MaxPairs scored paragraphs and the same in another order.
AggregateInit ==
    /\ OnlyEvaluation
    /\ \E n \in 1..MaxPairs : \E s \in [1..n -> ScoredPairs] :
           \E f \in Orders(n) : args = <<s, [i \in 1..n |-> s[f[i]]]>>
    /\ ret = <<>>

\* The loop's sums and the average, for each of the two orders.
Aggregate ==
    /\ args # <<>>
    /\ ret = <<>>
    /\ ret' = [i \in 1..Len(args) |-> FloatAverage(FloatSums(args[i]))]
    /\ UNCHANGED <<args, thread_vars, other, window_vars>>

AggregateSpec == AggregateInit /\ [][Aggregate]_vars

\* The exact sum of ai_rate * weight and of weight over the valid paragraphs.
ExactScore(pairs) ==
    SumSeq([i \in 1..Len(pairs) |-> pairs[i].ai_rate * pairs[i].weight])

ExactWeight(pairs) == SumSeq([i \in 1..Len(pairs) |-> pairs[i].weight])

\* The exact weighted mean lies halfway between two two-decimal values.
IsTie(pairs) ==
    /\ ExactWeight(pairs) > 0
    /\ (2 * ExactScore(pairs)) % (2 * ExactWeight(pairs)) = ExactWeight(pairs)

(* C16 as stated.  Aggregating the same scored paragraphs in any order     *)
(* yields the same total_ai_rate.                                          *)
C16_SameTotalInAnyOrder == ret # <<>> => ret[1] = ret[2]

(* C16 amended.  The total_ai_rate of the same scored paragraphs in two    *)
(* orders differs by at most 0.01: each is the exact weighted mean rounded *)
(* to two decimals, and the two are equal, unless the exact mean lies      *)
(* halfway between two two-decimal values, where the rounding errors of    *)
(* the sums, which depend on the order, decide the direction.              *)
C16_TotalsWithinOneHundredth ==
    ret # <<>> =>
        LET score == ExactScore(args[1])
            weight == ExactWeight(args[1])
        IN  /\ weight = 0 => ret = <<0, 0>>
            /\ (weight > 0 /\ ~IsTie(args[1])) =>
                   ret = <<RoundDiv(score, weight), RoundDiv(score, weight)>>
            /\ IsTie(args[1]) =>
                   \A i \in 1..2 :
                       ret[i] \in {score \div weight, score \div weight + 1}

\* Three scored paragraphs whose two orders give totals 0.01 apart.
C16_Witness ==
    /\ ret # <<>>
    /\ Len(args[1]) = 3
    /\ ret[1] = ret[2] + 1

----------------------------------------------------------------------------
(* The run of main.py over the text of three paragraphs                    *)
(* "这是一个很长很长的人类写的句子，包含大量细节。", "短。" and                      *)
(* "AI生成的均匀句子。均匀句子。均匀句子。".                                      *)

\* 15 CJK characters, a comma, 6 CJK characters, a full stop
ExampleParagraph1 == Rep("zh", 15) \o <<",">> \o Rep("zh", 6) \o <<".">>

\* 1 CJK character and a full stop
ExampleParagraph2 == <<"zh", ".">>

\* "AI" and 7 CJK characters, then twice 4 CJK characters, each sentence
\* with its full stop
ExampleParagraph3 ==
    <<"a", "a">> \o Rep("zh", 7) \o <<".">> \o Rep("zh", 4) \o <<".">> \o
        Rep("zh", 4) \o <<".">>

ExampleText == JoinLines(<<ExampleParagraph1, ExampleParagraph2, ExampleParagraph3>>)

ExampleInit ==
    /\ variant = "main"
    /\ text = ExampleText
    /\ model_path \in ModelPaths
    /\ pc = "start"
    /\ paragraphs = <<>>
    /\ idx = 0
    /\ results = <<>>
    /\ total_weighted_score = 0
    /\ total_valid_weight = 0
    /\ emitted = <<>>
    /\ calls = <<>>
    /\ raised = <<>>
    /\ interruption_requested = FALSE
    /\ OnlyThread

ExampleSpec == ExampleInit /\ [][Next]_vars

(* C17.  In the run over the example text whose classifier returns 0.9 for *)
(* every paragraph, the ai_rate of paragraph 3 is greater than or equal to *)
(* the ai_rate of paragraph 1.                                             *)
C17_ExampleOrder ==
    (/\ Completed
     /\ Len(results) = 3
     /\ \A i \in 1..3 : calls[i].outcome = "ok" /\ calls[i].raw = 9 * (Unit \div 10))
    => results[3].ai_rate >= results[1].ai_rate

----------------------------------------------------------------------------
(* Two thread objects of one process running side by side. The variables   *)
(* of the thread hold the state of the thread that is running, other holds *)
(* the state of the thread that is waiting; every attribute and every      *)
(* local of run() belongs to its own thread object.                        *)

\* The state of the running thread, as a record.
Current ==
    [variant |-> variant, text |-> text, model_path |-> model_path, pc |-> pc,
     paragraphs |-> paragraphs, idx |-> idx, results |-> results,
     total_weighted_score |-> total_weighted_score,
     total_valid_weight |-> total_valid_weight, emitted |-> emitted,
     calls |-> calls, raised |-> raised,
     interruption_requested |-> interruption_requested]

\* A thread object after __init__(text, model_path).
NewThread(v, t, path) ==
    [variant |-> v, text |-> t, model_path |-> path, pc |-> "start",
     paragraphs |-> <<>>, idx |-> 0, results |-> <<>>,
     total_weighted_score |-> 0, total_valid_weight |-> 0, emitted |-> <<>>,
     calls |-> <<>>, raised |-> <<>>, interruption_requested |-> FALSE]

\* The texts of the two threads: one paragraph, and an ignored paragraph
\* followed by one with a human bonus.
TwoRunsTexts == {TenChars, JoinLines(<<NineChars, BurstyParagraph>>)}

TwoRunsInit ==
    /\ \E v \in Variants : \E t1, t2 \in TwoRunsTexts :
           /\ variant = v
           /\ text = t1
           /\ other = NewThread(v, t2, "AIGC_Model")
    /\ model_path = "AIGC_Model"
    /\ pc = "start"
    /\ paragraphs = <<>>
    /\ idx = 0
    /\ results = <<>>
    /\ total_weighted_score = 0
    /\ total_valid_weight = 0
    /\ emitted = <<>>
    /\ calls = <<>>
    /\ raised = <<>>
    /\ interruption_requested = FALSE
    /\ NoEvaluation
    /\ NoWindow

\* A switch in which the sums stay where they are, as if they belonged to
\* the process and not to the thread.
SwitchSharingSums ==
    /\ other # <<>>
    /\ variant' = other.variant
    /\ text' = other.text
    /\ model_path' = other.model_path
    /\ pc' = other.pc
    /\ paragraphs' = other.paragraphs
    /\ idx' = other.idx
    /\ results' = other.results
    /\ emitted' = other.emitted
    /\ calls' = other.calls
    /\ raised' = other.raised
    /\ interruption_requested' = other.interruption_requested
    /\ other' = Current
    /\ UNCHANGED <<total_weighted_score, total_valid_weight, args, ret, window_vars>>

\* The scheduler takes the processor from the running thread and gives it
\* to the waiting one.
Switch ==
    /\ other # <<>>
    /\ variant' = other.variant
    /\ text' = other.text
    /\ model_path' = other.model_path
    /\ pc' = other.pc
    /\ paragraphs' = other.paragraphs
    /\ idx' = other.idx
    /\ results' = other.results
    /\ total_weighted_score' = other.total_weighted_score
    /\ total_valid_weight' = other.total_valid_weight
    /\ emitted' = other.emitted
    /\ calls' = other.calls
    /\ raised' = other.raised
    /\ interruption_requested' = other.interruption_requested
    /\ other' = Current
    /\ UNCHANGED <<args, ret, window_vars>>

TwoRunsNext == Next \/ Switch

TwoRunsSpec == TwoRunsInit /\ [][TwoRunsNext]_vars

\* The result list of a run over text t whose classifier calls went as in cs.
ExpectedResults(v, t, cs) ==
    LET ok == SelectSeq(Indices(Len(cs)), LAMBDA i : cs[i].outcome = "ok")
    IN  [k \in 1..Len(ok) |-> Scored(v, Segment(t)[ok[k]], cs[ok[k]].raw)]

(* C18.  The outcome of a run is a function of its text, its configuration *)
(* and the outcomes of its classifier calls: a completed run's result is   *)
(* the one computed from them alone, and two runs that ended with the same *)
(* text, the same model path, the same outcome of the loading and the same *)
(* per-paragraph classifier outcomes have emitted the same result and hold *)
(* the same result list, however their steps were interleaved.             *)
C18_OutcomeOfInputsOnly ==
    /\ Completed =>
           Last(emitted).val =
               [total_ai_rate |-> RunTotal(variant, Segment(text), calls),
                paragraphs |-> ExpectedResults(variant, text, calls)]
    /\ (/\ other # <<>>
        /\ pc = "finished" /\ other.pc = "finished"
        /\ text = other.text /\ model_path = other.model_path
        /\ calls = other.calls /\ raised = other.raised)
       => /\ ResultEvents = SelectSeq(other.emitted, IsResultEvent)
          /\ results = other.results

\* Two completed runs over the same two paragraphs with the same classifier
\* outcomes and a positive total.
C18_Witness ==
    /\ other # <<>>
    /\ Completed
    /\ other.pc = "finished"
    /\ text = other.text /\ calls = other.calls /\ raised = other.raised
    /\ Len(calls) = 2
    /\ Last(emitted).val.total_ai_rate > 0

----------------------------------------------------------------------------
(* The window AIGCSentinel of main.py: the detect button, its handler      *)
(* run_detection, the thread it starts and the handler of the thread's     *)
(* finished event.  A click reaches run_detection only while the button is *)
(* enabled.                                                                *)

MaxRuns == 2

\* What the text box can hold: nothing, a blank, and two texts with white
\* space around them.
WindowTexts ==
    {<<>>, BlankLine, <<" ">> \o TenChars,
     JoinLines(<<NineChars, BurstyParagraph>>) \o <<"\n">>}

WindowInit ==
    /\ NoThread
    /\ NoEvaluation
    /\ other = <<>>
    /\ is_model_valid \in BOOLEAN
    /\ btn_detect = TRUE
    /\ input_edit \in WindowTexts
    /\ started = 0
    /\ handled = 0

\* The user types or imports a text.
EditInput ==
    /\ \E t \in WindowTexts : t # input_edit /\ input_edit' = t
    /\ UNCHANGED <<thread_vars, args, ret, other, is_model_valid, btn_detect,
                   started, handled>>

\* check_model_status, called by manual_refresh_model: the model directory
\* is complete or it is not.
manual_refresh_model ==
    /\ \E valid \in BOOLEAN : valid # is_model_valid /\ is_model_valid' = valid
    /\ UNCHANGED <<thread_vars, args, ret, other, btn_detect, input_edit,
                   started, handled>>

\* self.thread = AIGCDetectionThread(text, self.model_path)
Construct(v, t, path) ==
    /\ variant' = v
    /\ text' = t
    /\ model_path' = path
    /\ pc' = "start"
    /\ paragraphs' = <<>>
    /\ idx' = 0
    /\ results' = <<>>
    /\ total_weighted_score' = 0
    /\ total_valid_weight' = 0
    /\ emitted' = <<>>
    /\ calls' = <<>>
    /\ raised' = <<>>
    /\ interruption_requested' = FALSE

\* run_detection without self.btn_detect.setEnabled(False)
run_detection_button_left_enabled ==
    /\ btn_detect
    /\ started < MaxRuns
    /\ IF ~is_model_valid \/ Strip(input_edit) = <<>>
       THEN UNCHANGED <<thread_vars, btn_detect, started>>
       ELSE /\ btn_detect' = btn_detect
            /\ \E path \in {"AIGC_Model", "missing"} :
                   Construct(variant, Strip(input_edit), path)
            /\ started' = started + 1
    /\ UNCHANGED <<args, ret, other, is_model_valid, input_edit, handled>>

\* A click on the enabled button: run_detection returns when no model is
\* valid or the stripped text is empty, else it disables the button,
\* constructs the thread with the stripped text and starts it.  The model
\* directory may have gone since it was checked.
run_detection ==
    /\ btn_detect
    /\ started < MaxRuns
    /\ IF ~is_model_valid \/ Strip(input_edit) = <<>>
       THEN UNCHANGED <<thread_vars, btn_detect, started>>
       ELSE /\ btn_detect' = FALSE
            /\ \E path \in {"AIGC_Model", "missing"} :
                   Construct(variant, Strip(input_edit), path)
            /\ started' = started + 1
    /\ UNCHANGED <<args, ret, other, is_model_valid, input_edit, handled>>

\* A handler that enables the button again only after an aggregate result,
\* as if the button were re-enabled at the end of process_results.
thread_finished_unless_error ==
    /\ pc = "finished"
    /\ handled < started
    /\ btn_detect' = ~Failed
    /\ handled' = handled + 1
    /\ UNCHANGED <<thread_vars, args, ret, other, is_model_valid, input_edit,
                   started>>

\* The handler of the thread's finished event, after run() has returned:
\* the button is enabled again.
thread_finished ==
    /\ pc = "finished"
    /\ handled < started
    /\ btn_detect' = TRUE
    /\ handled' = handled + 1
    /\ UNCHANGED <<thread_vars, args, ret, other, is_model_valid, input_edit,
                   started>>

WindowNext ==
    \/ EditInput
    \/ manual_refresh_model
    \/ run_detection
    \/ thread_finished
    \/ CheckModelPath
    \/ DetectDevice
    \/ LoadModel
    \/ LoadFails
    \/ SegmentText
    \/ ClassifyParagraph
    \/ ParagraphFails
    \/ Finish

WindowSpec == WindowInit /\ [][WindowNext]_vars

(* C19.  At most one scoring run is in flight per window: between the      *)
(* start of a detection thread and the handling of its finished event the  *)
(* detect button is disabled and no second thread is started, so the       *)
(* threads started exceed the finished events handled by at most one.      *)
C19_OneRunInFlight ==
    /\ started - handled \in {0, 1}
    /\ started - handled = 1 => ~btn_detect
    /\ pc \notin {"none", "finished"} => started - handled = 1

\* A second run in its loop after the first one ended and was handled.
C19_Witness ==
    /\ started = 2
    /\ handled = 1
    /\ pc = "loop"
    /\ calls # <<>>

----------------------------------------------------------------------------
(* Runs over texts whose paragraphs are separated by a carriage return, by *)
(* a carriage return and a line feed, or by a line feed.                   *)

CarriageReturnTexts ==
    {TenChars \o <<"\r">> \o BurstyParagraph,
     TenChars \o <<"\r", "\n">> \o BurstyParagraph,
     TenChars \o <<"\n">> \o BurstyParagraph}

CarriageReturnInit ==
    /\ variant \in Variants
    /\ text \in CarriageReturnTexts
    /\ model_path \in ModelPaths
    /\ pc = "start"
    /\ paragraphs = <<>>
    /\ idx = 0
    /\ results = <<>>
    /\ total_weighted_score = 0
    /\ total_valid_weight = 0
    /\ emitted = <<>>
    /\ calls = <<>>
    /\ raised = <<>>
    /\ interruption_requested = FALSE
    /\ OnlyThread

CarriageReturnSpec == CarriageReturnInit /\ [][Next]_vars

\* t with every "\r\n" and every other "\r" replaced by "\n"
RECURSIVE NormalizeLineBreaks(_)
NormalizeLineBreaks(t) ==
    IF t = <<>> THEN t
    ELSE IF Head(t) = "\r" /\ Len(t) > 1 /\ t[2] = "\n"
         THEN <<"\n">> \o NormalizeLineBreaks(SubSeq(t, 3, Len(t)))
    ELSE IF Head(t) = "\r" THEN <<"\n">> \o NormalizeLineBreaks(Tail(t))
    ELSE <<Head(t)>> \o NormalizeLineBreaks(Tail(t))

(* C20.  The paragraphs of a run are those of its text with "\r\n" and     *)
(* "\r" normalized to "\n" (a text separated by carriage returns gives the *)
(* paragraphs of the same text separated by line feeds), and no paragraph  *)
(* contains a carriage return.                                             *)
C20_LineBreaksNormalized ==
    pc = "loop" =>
        /\ paragraphs = Segment(NormalizeLineBreaks(text))
        /\ \A i \in 1..Len(paragraphs) : \A j \in 1..Len(paragraphs[i]) :
               paragraphs[i][j] # "\r"

----------------------------------------------------------------------------
(* The segmentation on its own: the paragraphs of a text, and the          *)
(* paragraphs of those paragraphs joined by line breaks.                   *)

MaxSegmentLines == 3

\* The lines of a text: empty, blank, and non-blank with and without
\* whitespace around and inside.
SegmentLines ==
    {<<>>, <<" ">>, <<"\t", " ">>, <<"zh">>, <<" ", "zh">>, <<"zh", "\t">>,
     <<"a", " ", "zh">>}

SegmentTexts ==
    UNION {{JoinLines(ls) : ls \in [1..n -> SegmentLines]} :
               n \in 0..MaxSegmentLines}

SegmentInit ==
    /\ OnlyEvaluation
    /\ args \in {<<t>> : t \in SegmentTexts}
    /\ ret = <<>>

\* paragraphs = [p for p in self.text.split("\n") if p.strip()]
SegmentOnce ==
    /\ args # <<>>
    /\ ret = <<>>
    /\ ret' = <<Segment(args[1])>>
    /\ UNCHANGED <<args, thread_vars, other, window_vars>>

\* The same statement run on the paragraphs joined by "\n".
SegmentAgain ==
    /\ Len(ret) = 1
    /\ ret' = Append(ret, Segment(JoinLines(ret[1])))
    /\ UNCHANGED <<args, thread_vars, other, window_vars>>

SegmentNext == SegmentOnce \/ SegmentAgain

SegmentSpec == SegmentInit /\ [][SegmentNext]_vars

\* The positions of t at which a line starts.
LineStarts(t) == {p \in 1..(Len(t) + 1) : p = 1 \/ t[p - 1] = "\n"}

\* The line of t that starts at p: up to the next line break or the end.
LineAt(t, p) ==
    LET ends == {q \in p..(Len(t) + 1) : q = Len(t) + 1 \/ t[q] = "\n"}
        end == CHOOSE q \in ends : \A r \in ends : q <= r
    IN  SubSeq(t, p, end - 1)

\* The starts of the lines of t that hold a character that is no whitespace.
KeptStarts(t) ==
    {p \in LineStarts(t) :
        \E j \in 1..Len(LineAt(t, p)) : ~IsSpace(LineAt(t, p)[j])}

\* The k-th smallest element of the set of numbers S.
Nth(S, k) == CHOOSE p \in S : Cardinality({q \in S : q < p}) = k - 1

(* C21.  The paragraphs of a text are exactly its lines (the segments its  *)
(* line breaks delimit) that hold a character that is no whitespace, in    *)
(* the order of the text and with their content as in the text; a text of  *)
(* whitespace only has no paragraphs.                                      *)
C21_SegmentsKept ==
    ret # <<>> =>
        LET t == args[1]
            kept == KeptStarts(t)
        IN  /\ Len(ret[1]) = Cardinality(kept)
            /\ \A k \in 1..Len(ret[1]) : ret[1][k] = LineAt(t, Nth(kept, k))
            /\ (\A j \in 1..Len(t) : IsSpace(t[j])) => ret[1] = <<>>

\* A text of three lines: an untrimmed paragraph, a blank line that is
\* dropped, and a second paragraph.
C21_Witness ==
    /\ args = <<JoinLines(<<<<" ", "zh">>, <<"\t", " ">>, <<"zh", "\t">>>>)>>
    /\ ret # <<>>
    /\ ret[1] = <<<<" ", "zh">>, <<"zh", "\t">>>>

(* C22.  Segmenting the paragraphs of a text joined by "\n" gives the same *)
(* paragraphs again.                                                       *)
C22_SegmentIdempotent ==
    Len(ret) = 2 => ret[2] = ret[1]

\* Two paragraphs with an empty line between them, segmented twice.
C22_Witness ==
    /\ Len(ret) = 2
    /\ Len(ret[1]) = 2
    /\ Len(Split(args[1], "\n")) = 3

----------------------------------------------------------------------------
(* Runs with a valid model path over texts without blank lines, for the    *)
(* properties of the scoring loop.                                         *)

MaxLoopLines == 3

LoopLines == {NineChars, TenChars, BurstyParagraph}

LoopTexts ==
    UNION {{JoinLines(ls) : ls \in [1..n -> LoopLines]} : n \in 0..MaxLoopLines}

LoopInit ==
    /\ variant \in Variants
    /\ text \in LoopTexts
    /\ model_path = "AIGC_Model"
    /\ pc = "start"
    /\ paragraphs = <<>>
    /\ idx = 0
    /\ results = <<>>
    /\ total_weighted_score = 0
    /\ total_valid_weight = 0
    /\ emitted = <<>>
    /\ calls = <<>>
    /\ raised = <<>>
    /\ interruption_requested = FALSE
    /\ OnlyThread

\* The steps of run() when no caller requests an interruption.
LoopNext ==
    \/ CheckModelPath
    \/ DetectDevice
    \/ LoadModel
    \/ LoadFails
    \/ SegmentText
    \/ ClassifyParagraph
    \/ ParagraphFails
    \/ Finish

LoopSpec == LoopInit /\ [][LoopNext]_vars

\* The entries of a result list that are not ignored.
Counted(list) == SelectSeq(list, LAMBDA rec : ~rec.is_ignored)

\* sum(ai_rate_i * weight_i) over the entries of list that are not ignored,
\* weight_i the effective length of the entry's content
ListScore(v, list) ==
    SumSeq([i \in 1..Len(Counted(list)) |->
               Counted(list)[i].ai_rate * ParaLen(v, Counted(list)[i].content)])

\* sum(weight_i) over the entries of list that are not ignored
ListWeight(v, list) ==
    SumSeq([i \in 1..Len(Counted(list)) |-> ParaLen(v, Counted(list)[i].content)])

----------------------------------------------------------------------------
(* The fragments of a paragraph by their positions, for the heuristic.     *)

\* The positions of t at which a fragment starts: a character that is no
\* terminator, at the start of t or after a terminator.
FragmentStarts(t) ==
    {p \in 1..Len(t) : ~IsTerminator(t[p]) /\ (p = 1 \/ IsTerminator(t[p - 1]))}

\* The fragment of t that starts at p: up to the next terminator or the end.
FragmentAt(t, p) ==
    LET ends == {q \in p..(Len(t) + 1) : q = Len(t) + 1 \/ IsTerminator(t[q])}
        end == CHOOSE q \in ends : \A r \in ends : q <= r
    IN  SubSeq(t, p, end - 1)

\* The number of characters of s from its first to its last character that
\* is no whitespace.
StrippedLength(s) ==
    LET solid == {j \in 1..Len(s) : ~IsSpace(s[j])}
    IN  IF solid = {} THEN 0
        ELSE 1 + (CHOOSE j \in solid : \A k \in solid : k <= j)
               - (CHOOSE j \in solid : \A k \in solid : j <= k)

\* The starts of the fragments of t whose stripped length exceeds 3.
Qualifying(t) ==
    {p \in FragmentStarts(t) : StrippedLength(FragmentAt(t, p)) > 3}

\* The bonus of the sentence lengths, three or more of them.
BonusOfLengths(lengths) ==
    LET cv == CoefficientOfVariation(lengths)
    IN  IF cv > 4 * (Unit \div 10)
        THEN Min(((cv - 4 * (Unit \div 10)) * 6) \div 10, 3 * (Unit \div 10))
        ELSE 0

(* C24.  calculate_human_features returns 0.0 whenever fewer than 3        *)
(* fragments of stripped length above 3 remain after the split on sentence *)
(* terminators, and otherwise the bonus of the lengths of those fragments  *)
(* alone: a fragment of stripped length <= 3 has no part in the result.    *)
C24_ShortFragmentsDiscarded ==
    ret # <<>> =>
        LET t == args[1]
            kept == Qualifying(t)
            lengths == [k \in 1..Cardinality(kept) |->
                           Len(FragmentAt(t, Nth(kept, k)))]
        IN  ret[1] = IF Cardinality(kept) < 3 THEN 0 ELSE BonusOfLengths(lengths)

\* One sentence of 30 characters and short fragments, of length 3 with and
\* without a leading blank and of length 1: the bonus is 0.
C24_Witness ==
    /\ ret = <<0>>
    /\ Cardinality(FragmentStarts(args[1])) = 4
    /\ Cardinality(Qualifying(args[1])) = 1
    /\ \E p \in Qualifying(args[1]) : Len(FragmentAt(args[1], p)) = 30
    /\ \E p \in FragmentStarts(args[1]) : FragmentAt(args[1], p) = <<" ", "zh", "zh", "zh">>
    /\ \E p \in FragmentStarts(args[1]) : Len(FragmentAt(args[1], p)) = 1

----------------------------------------------------------------------------
(* C25.  In both engine variants the effective length of a paragraph is    *)
(* the number of its characters that are no whitespace, and the paragraph  *)
(* is ignored exactly when that number is below 10, the default            *)
(* MIN_VALID_CHARS.                                                        *)
C25_DefaultPolicyInBothVariants ==
    ret # <<>> =>
        LET count == Len(RemoveWhitespace(args[2]))
        IN  /\ ret[1].para_len = HalfChars * count
            /\ ret[1].is_ignored <=> count < 10

----------------------------------------------------------------------------
(* C26.  At every paragraph boundary of the loop the running total weight  *)
(* is the sum of the weights of the entries of the result list that are    *)
(* not ignored, and the running weighted sum is the sum of ai_rate times   *)
(* weight over those entries; a step of the loop whose classification      *)
(* fails changes neither the list nor the sums.                            *)
C26_SumsMatchList ==
    /\ total_valid_weight = ListWeight(variant, results)
    /\ total_weighted_score = ListScore(variant, results)

C26_FailureRecordsNothing ==
    (pc = "loop" /\ calls' # calls /\ Last(calls').outcome = "raised") =>
        UNCHANGED <<results, total_weighted_score, total_valid_weight>>

C26_ListAndSumsTogether ==
    []C26_SumsMatchList /\ [][C26_FailureRecordsNothing]_vars

\* A paragraph boundary after a failed, an ignored and a counted paragraph.
C26_Witness ==
    /\ pc = "loop"
    /\ idx = 3
    /\ \E i \in 1..3 : calls[i].outcome = "raised"
    /\ Len(results) = 2
    /\ Len(Counted(results)) = 1
    /\ total_valid_weight > 0

----------------------------------------------------------------------------
\* The number of classifier calls that raised.
FailedCalls == Cardinality({i \in 1..Len(calls) : calls[i].outcome = "raised"})

(* C27.  Every paragraph the loop has passed was classified, ignored or    *)
(* not; a paragraph whose classification returned is in the result list    *)
(* with its content, its ai_rate and its is_ignored, TRUE for one that is  *)
(* too short; and the result list of a completed run has as many entries   *)
(* as there are paragraphs less those whose classification failed.         *)
C27_IgnoredStillListed ==
    /\ pc = "loop" => Len(calls) = idx
    /\ Len(results) = Len(OkIndices)
    /\ \A k \in 1..Len(results) :
           LET i == OkIndices[k]
           IN  /\ results[k].content = paragraphs[i]
               /\ results[k].ai_rate =
                      AiRate(calls[i].raw, calculate_human_features(paragraphs[i]))
               /\ results[k].is_ignored = IsIgnored(variant, paragraphs[i])
    /\ Completed =>
           /\ Len(calls) = Len(paragraphs)
           /\ Len(Last(emitted).val.paragraphs) = Len(paragraphs) - FailedCalls

\* A completed run with an ignored paragraph in its result, listed with a
\* positive ai_rate, and a paragraph whose classification failed.
C27_Witness ==
    /\ Completed
    /\ FailedCalls = 1
    /\ Len(paragraphs) = 3
    /\ \E k \in 1..Len(results) : results[k].is_ignored /\ results[k].ai_rate > 0

----------------------------------------------------------------------------
\* No error has been emitted on result_signal.
NoErrorEmitted == \A i \in 1..Len(emitted) : ~IsError(emitted[i])

(* C28.  An exception is a version conflict exactly when its message holds *)
(* both "upgrade torch" and "v2.6".  Raised before any paragraph (imports, *)
(* hardware detection, loading), a conflict ends the run with the          *)
(* environment-conflict error and any other exception with the generic     *)
(* inference error.  Raised by a paragraph, a conflict ends the run with   *)
(* the environment-conflict error, and an exception with neither or only   *)
(* one of the substrings is swallowed: no error is emitted, the paragraph  *)
(* is left out of the result list and the run goes on.                     *)
C28_ConflictNeedsBothSubstrings ==
    raised # <<>> =>
        LET e == raised[1]
            both == "upgrade torch" \in e /\ "v2.6" \in e
        IN  IF calls = <<>>
            THEN /\ Failed
                 /\ IsErrorOf(Last(emitted),
                        IF both THEN "EnvironmentConflict" ELSE "InferenceError")
            ELSE IF both
                 THEN Failed /\ IsErrorOf(Last(emitted), "EnvironmentConflict")
                 ELSE /\ Last(calls).outcome = "raised"
                      /\ NoErrorEmitted
                      /\ pc = "loop" \/ Completed
                      /\ Len(results) = Len(calls) - FailedCalls

\* A run that completed after its last paragraph raised an exception whose
\* message holds "upgrade torch" and not "v2.6".
C28_Witness ==
    /\ Completed
    /\ raised = <<{"upgrade torch"}>>
    /\ Last(calls).outcome = "raised"
    /\ Len(Last(emitted).val.paragraphs) = Len(paragraphs) - 1

----------------------------------------------------------------------------
\* The values emitted on progress_signal, in order.
ProgressValues ==
    LET events == SelectSeq(emitted, IsProgressEvent)
    IN  [j \in 1..Len(events) |-> events[j].val]

\* The floating-point expression of the loop gives 30 + floor(65 * k / n)
\* for every number n of paragraphs up to MaxTotal and every k of them done.
FloatProgressIsFloor ==
    \A n \in 1..MaxTotal : \A k \in 1..n :
        ProgressTable[n][k] = 30 + (65 * k) \div n

(* C29.  The values emitted on progress_signal during a run are 10, then   *)
(* 30, then 30 + floor(65 * (idx + 1) / n) after each of the n paragraphs, *)
(* scored or skipped after a swallowed failure: one value per paragraph    *)
(* passed.  They never decrease, they stay within 10 and 95, and the value *)
(* after the last paragraph is 95.                                         *)
C29_ProgressNonDecreasing ==
    LET pv == ProgressValues
        n == Len(paragraphs)
    IN  /\ FloatProgressIsFloor
        /\ \A j \in 1..Len(pv) :
               /\ j = 1 => pv[j] = 10
               /\ j = 2 => pv[j] = 30
               /\ j > 2 => pv[j] = 30 + (65 * (j - 2)) \div n
               /\ 10 <= pv[j] /\ pv[j] <= 95
               /\ j > 1 => pv[j - 1] <= pv[j]
        /\ pc = "loop" => Len(pv) = 2 + idx
        /\ (Completed /\ n > 0) => Len(pv) = 2 + n /\ Last(pv) = 95

\* A completed run over three paragraphs, one of them skipped after a
\* swallowed failure, with the values 10, 30, 51, 73 and 95.
C29_Witness ==
    /\ Completed
    /\ FailedCalls = 1
    /\ ProgressValues = <<10, 30, 51, 73, 95>>

----------------------------------------------------------------------------
(* The window when the started thread is scheduled until run() returns     *)
(* (every call of the imports, of the loading and of the classifier        *)
(* returns or raises) and the event loop delivers the finished event.      *)

\* A step of run().
ThreadStep ==
    \/ CheckModelPath
    \/ DetectDevice
    \/ LoadModel
    \/ LoadFails
    \/ SegmentText
    \/ ClassifyParagraph
    \/ ParagraphFails
    \/ Finish

\* A thread has been started and run() has not returned: a step of run() is
\* enabled.
Running == pc \notin {"none", "finished"}

\* Weak fairness of the steps of run(), WF_vars(ThreadStep), with the
\* enabling condition of ThreadStep written out as Running: a thread that
\* has not returned is not left waiting for ever.
ThreadScheduled == []<>(~Running) \/ []<><<ThreadStep>>_vars

WindowFairSpec ==
    /\ WindowInit
    /\ [][WindowNext]_vars
    /\ ThreadScheduled
    /\ WF_vars(thread_finished)

(* C30.  Once run_detection has started a thread and disabled the detect   *)
(* button, the button is eventually enabled again, whatever the outcome of *)
(* the run (aggregate result, model-path error, environment conflict,      *)
(* generic engine error): the window does not stay with detection          *)
(* disabled.                                                               *)
C30_ButtonReenabled ==
    (started - handled = 1 /\ ~btn_detect) ~> (btn_detect /\ handled = started)

\* The button enabled again after a run that ended with the environment
\* conflict.
C30_Witness ==
    /\ btn_detect
    /\ handled = 1
    /\ Failed
    /\ IsErrorOf(Last(emitted), "EnvironmentConflict")

====
